---- MODULE Spec2Model ----
(***************************************************************************)
(* Model of lab-chatbot-with-multi-query-retriever.ipynb: the metadata     *)
(* callbacks (metadata_func, clean_metadata), the notebook's cells run     *)
(* top to bottom (download, load_and_split, loader rebinding, print,       *)
(* from_documents, chain.invoke) and _combine_documents.                   *)
(*                                                                         *)
(* Python values are records [t, v]: t is the Python type ("str", "none",  *)
(* "int") and v the text of the value as a sequence of atoms.  The atoms   *)
(* of a timestamp or a name are its characters; the atoms of a record's    *)
(* content are blocks of chunk_overlap tokens each.  A dict is a function  *)
(* from key strings to values.                                             *)
(***************************************************************************)
EXTENDS Integers, Sequences, FiniteSets, TLC

VARIABLES
    pc,         \* the next cell of the notebook to run
    data,       \* the JSON array written to temp.json: a sequence of dicts
    loader,     \* the metadata callback the name `loader` is configured with
    docs,       \* the name `docs`: the passages load_and_split returned
    origin,     \* history: origin[k] is the position in data of the record
                \* docs[k] was cut from
    printed,    \* stdout of the cell printing docs[:3]
    indexed,    \* the passages handed to vectorstore.from_documents, in order
    retrieved,  \* the passages the retriever returned to the last chain.invoke
    context,    \* the string _combine_documents returned to the last invoke
    asked,      \* how many chain.invoke cells have run
    call        \* one call of a metadata callback: its arguments and outcome

vars == <<pc, data, loader, docs, origin, printed, indexed, retrieved, context, asked, call>>

pipelineVars == <<pc, data, loader, docs, origin, printed, indexed, retrieved, context, asked>>

-----------------------------------------------------------------------------
(* Bounds *)

MaxRecords == 2      \* records in temp.json
MaxRetrieved == 2    \* passages the retriever returns to one invoke

(* Program constants *)

chunk_size == 800
chunk_overlap == 400
NumQuestions == 3

-----------------------------------------------------------------------------
(* Python values and dicts *)

Str(s) == [t |-> "str", v |-> s]
None == [t |-> "none", v |-> <<>>]
EmptyStr == Str(<<>>)

Digits == <<"0", "1", "2", "3", "4", "5", "6", "7", "8", "9">>

RECURSIVE DecimalText(_)
DecimalText(n) ==
    IF n < 10 THEN <<Digits[n + 1]>>
    ELSE Append(DecimalText(n \div 10), Digits[(n % 10) + 1])

IntVal(n) == [t |-> "int", v |-> DecimalText(n)]

EmptyDict == [k \in {} |-> None]

\* d[k] = v
DictSet(d, k, v) == [x \in (DOMAIN d) \cup {k} |-> IF x = k THEN v ELSE d[x]]

\* d.pop(k, None)
DictPop(d, k) == [x \in (DOMAIN d) \ {k} |-> d[x]]

\* d.get(k, default)
DictGet(d, k, default) == IF k \in DOMAIN d THEN d[k] ELSE default

-----------------------------------------------------------------------------
(* datetime.fromisoformat / datetime.isoformat (Python 3.11).  The grammar  *)
(* modelled is calendar dates, YYYY-MM-DD or YYYYMMDD, followed by nothing  *)
(* or by any one separator character, a time HH[[:]MM[[:]SS]] and an        *)
(* optional offset Z or +-HH[[:]MM[[:]SS]].  Week dates and fractional      *)
(* seconds are outside the grammar and outside the inputs drawn below.      *)

IsDigit(c) == \E i \in 1..10 : Digits[i] = c
DigitVal(c) == (CHOOSE i \in 1..10 : Digits[i] = c) - 1
AllDigits(s) == \A i \in 1..Len(s) : IsDigit(s[i])

\* int(s[p:p+2]) and int(s[p:p+4]), p counted from 1
Num2(s, p) == DigitVal(s[p]) * 10 + DigitVal(s[p + 1])
Num4(s, p) == Num2(s, p) * 100 + Num2(s, p + 2)

ParseError == [ok |-> FALSE]

\* _find_isoformat_datetime_separator: the offset of the separator
find_separator(s) == IF s[5] = "-" THEN 10 ELSE 8

parse_isoformat_date(dstr) ==
    IF Len(dstr) = 10
        THEN IF /\ dstr[5] = "-"
                /\ dstr[8] = "-"
                /\ AllDigits(SubSeq(dstr, 1, 4))
                /\ AllDigits(SubSeq(dstr, 6, 7))
                /\ AllDigits(SubSeq(dstr, 9, 10))
             THEN [ok |-> TRUE, year |-> Num4(dstr, 1), month |-> Num2(dstr, 6),
                   day |-> Num2(dstr, 9)]
             ELSE ParseError
    ELSE IF Len(dstr) = 8
        THEN IF AllDigits(dstr)
             THEN [ok |-> TRUE, year |-> Num4(dstr, 1), month |-> Num2(dstr, 5),
                   day |-> Num2(dstr, 7)]
             ELSE ParseError
    ELSE ParseError

\* _parse_hh_mm_ss_ff, without the fraction
parse_hh_mm_ss(tstr) ==
    LET n == Len(tstr)
        hms(h, m, s) == [ok |-> TRUE, hour |-> h, minute |-> m, second |-> s]
    IN  IF n < 2 \/ ~AllDigits(SubSeq(tstr, 1, 2)) THEN ParseError
        ELSE IF n = 2 THEN hms(Num2(tstr, 1), 0, 0)
        ELSE IF tstr[3] = ":"
            THEN IF n = 5 /\ AllDigits(SubSeq(tstr, 4, 5))
                    THEN hms(Num2(tstr, 1), Num2(tstr, 4), 0)
                 ELSE IF /\ n = 8
                         /\ AllDigits(SubSeq(tstr, 4, 5))
                         /\ tstr[6] = ":"
                         /\ AllDigits(SubSeq(tstr, 7, 8))
                    THEN hms(Num2(tstr, 1), Num2(tstr, 4), Num2(tstr, 7))
                 ELSE ParseError
        ELSE IF n = 4 /\ AllDigits(tstr) THEN hms(Num2(tstr, 1), Num2(tstr, 3), 0)
        ELSE IF n = 6 /\ AllDigits(tstr)
            THEN hms(Num2(tstr, 1), Num2(tstr, 3), Num2(tstr, 5))
        ELSE ParseError

\* tstr.find(c) + 1: the 1-based position of the first c, 0 when there is none
FindChar(s, c) ==
    IF \E i \in 1..Len(s) : s[i] = c
        THEN CHOOSE i \in 1..Len(s) : s[i] = c /\ \A j \in 1..(i - 1) : s[j] # c
        ELSE 0

\* the position from which _parse_isoformat_time reads the offset: of the
\* first "-", else of the first "+", else of the first "Z"; 0 when none
tz_position(tstr) ==
    IF FindChar(tstr, "-") # 0 THEN FindChar(tstr, "-")
    ELSE IF FindChar(tstr, "+") # 0 THEN FindChar(tstr, "+")
    ELSE FindChar(tstr, "Z")

TimeOfDay(time_comps, tz, off) ==
    [ok |-> TRUE, hour |-> time_comps.hour, minute |-> time_comps.minute,
     second |-> time_comps.second, tz |-> tz, offset |-> off]

OffsetSeconds(tz_comps) ==
    tz_comps.hour * 3600 + tz_comps.minute * 60 + tz_comps.second

\* the time and the offset once each is split off and read; tz is "naive" or
\* "aware", offset in seconds
time_and_offset(tstr, tz_pos, time_comps, tzlen, tz_comps) ==
    IF ~time_comps.ok THEN ParseError
    ELSE IF tz_pos = 0 THEN TimeOfDay(time_comps, "naive", 0)
    ELSE IF tz_pos = Len(tstr) /\ tstr[tz_pos] = "Z" THEN TimeOfDay(time_comps, "aware", 0)
    ELSE IF tzlen \in {0, 1, 3} \/ ~tz_comps.ok THEN ParseError
    ELSE IF OffsetSeconds(tz_comps) >= 86400 THEN ParseError     \* timezone() range
    ELSE TimeOfDay(time_comps, "aware",
                   IF tstr[tz_pos] = "-" THEN -OffsetSeconds(tz_comps)
                   ELSE OffsetSeconds(tz_comps))

split_at_offset(tstr, tz_pos) ==
    time_and_offset(tstr, tz_pos,
                    parse_hh_mm_ss(IF tz_pos > 0 THEN SubSeq(tstr, 1, tz_pos - 1) ELSE tstr),
                    Len(tstr) - tz_pos,
                    parse_hh_mm_ss(SubSeq(tstr, tz_pos + 1, Len(tstr))))

\* _parse_isoformat_time
parse_isoformat_time(tstr) ==
    IF Len(tstr) < 2 THEN ParseError ELSE split_at_offset(tstr, tz_position(tstr))

IsLeap(y) == (y % 4 = 0 /\ y % 100 # 0) \/ y % 400 = 0

DaysInMonth(y, m) ==
    IF m = 2 THEN (IF IsLeap(y) THEN 29 ELSE 28)
    ELSE IF m \in {4, 6, 9, 11} THEN 30 ELSE 31

Midnight ==
    [ok |-> TRUE, hour |-> 0, minute |-> 0, second |-> 0, tz |-> "naive", offset |-> 0]

InvalidIsoformat == [ok |-> FALSE, exc |-> "ValueError"]

\* datetime(year, month, day, hour, minute, second, tzinfo) of the parsed
\* components: the constructor checks the ranges
datetime_new(d, tm) ==
    IF ~d.ok \/ ~tm.ok THEN InvalidIsoformat
    ELSE IF \/ d.year < 1
            \/ d.month \notin 1..12
            \/ d.day \notin 1..DaysInMonth(d.year, d.month)
            \/ tm.hour > 23 \/ tm.minute > 59 \/ tm.second > 59
        THEN InvalidIsoformat
    ELSE [ok |-> TRUE, exc |-> "none",
          year |-> d.year, month |-> d.month, day |-> d.day,
          hour |-> tm.hour, minute |-> tm.minute, second |-> tm.second,
          tz |-> tm.tz, offset |-> tm.offset]

\* the date before the separator, the time after it (midnight without one)
date_and_time(s, sep) ==
    IF Len(s) = sep + 1 THEN InvalidIsoformat
    ELSE datetime_new(parse_isoformat_date(SubSeq(s, 1, IF Len(s) < sep THEN Len(s) ELSE sep)),
                      IF Len(s) <= sep THEN Midnight
                      ELSE parse_isoformat_time(SubSeq(s, sep + 2, Len(s))))

\* datetime.fromisoformat(x): [ok, exc] and, when ok, the datetime's fields
fromisoformat(x) ==
    IF x.t # "str" THEN [ok |-> FALSE, exc |-> "TypeError"]
    ELSE IF Len(x.v) < 8 THEN InvalidIsoformat
    ELSE date_and_time(x.v, find_separator(x.v))

\* "%02d" and "%04d"
Fmt2(n) == <<Digits[(n \div 10) + 1], Digits[(n % 10) + 1]>>
Fmt4(n) == Fmt2(n \div 100) \o Fmt2(n % 100)

\* datetime.isoformat(): YYYY-MM-DDTHH:MM:SS, then the UTC offset if aware
isoformat(dt) ==
    LET abs == IF dt.offset < 0 THEN -dt.offset ELSE dt.offset
        sign == IF dt.offset < 0 THEN <<"-">> ELSE <<"+">>
        hh == abs \div 3600
        mm == (abs % 3600) \div 60
        ss == abs % 60
        off == IF dt.tz = "naive" THEN <<>>
               ELSE sign \o Fmt2(hh) \o <<":">> \o Fmt2(mm)
                    \o (IF ss # 0 THEN <<":">> \o Fmt2(ss) ELSE <<>>)
    IN  Str(Fmt4(dt.year) \o <<"-">> \o Fmt2(dt.month) \o <<"-">> \o Fmt2(dt.day)
            \o <<"T">> \o Fmt2(dt.hour) \o <<":">> \o Fmt2(dt.minute) \o <<":">>
            \o Fmt2(dt.second) \o off)

-----------------------------------------------------------------------------
(* The metadata callbacks.  A callback gets the record and the metadata     *)
(* dict JSONLoader built, writes into that dict and returns it.  The model  *)
(* returns [exc, metadata]: the exception that left the call ("none" when   *)
(* it returned) and the dict as the call left it.                           *)

\* metadata_func with `except ValueError` in place of `except Exception`
metadata_func_except_ValueError(record, metadata) ==
    LET m1 == DictSet(metadata, "name", DictGet(record, "name", EmptyStr))
        m2 == DictSet(m1, "summary", DictGet(record, "summary", EmptyStr))
        m3 == DictSet(m2, "url", DictGet(record, "url", EmptyStr))
        m4 == DictSet(m3, "category", DictGet(record, "category", EmptyStr))
        parsed == fromisoformat(DictGet(record, "updated_at", EmptyStr))
    IN  IF parsed.ok
            THEN [exc |-> "none", metadata |-> DictSet(m4, "updated_at", isoformat(parsed))]
        ELSE IF parsed.exc = "ValueError"
            THEN [exc |-> "none", metadata |-> DictPop(m4, "updated_at")]
        ELSE [exc |-> parsed.exc, metadata |-> m4]

\* metadata_func building a new dict instead of writing into the one given
metadata_func_fresh_dict(record, metadata) ==
    LET m1 == DictSet(EmptyDict, "name", DictGet(record, "name", EmptyStr))
        m2 == DictSet(m1, "summary", DictGet(record, "summary", EmptyStr))
        m3 == DictSet(m2, "url", DictGet(record, "url", EmptyStr))
        m4 == DictSet(m3, "category", DictGet(record, "category", EmptyStr))
        parsed == fromisoformat(DictGet(record, "updated_at", EmptyStr))
    IN  IF parsed.ok
            THEN [exc |-> "none", metadata |-> DictSet(m4, "updated_at", isoformat(parsed))]
            ELSE [exc |-> "none", metadata |-> m4]

\* metadata_func storing the raw value once it parsed, without .isoformat()
metadata_func_keeps_raw(record, metadata) ==
    LET m1 == DictSet(metadata, "name", DictGet(record, "name", EmptyStr))
        m2 == DictSet(m1, "summary", DictGet(record, "summary", EmptyStr))
        m3 == DictSet(m2, "url", DictGet(record, "url", EmptyStr))
        m4 == DictSet(m3, "category", DictGet(record, "category", EmptyStr))
        updated_raw == DictGet(record, "updated_at", EmptyStr)
    IN  IF fromisoformat(updated_raw).ok
            THEN [exc |-> "none", metadata |-> DictSet(m4, "updated_at", updated_raw)]
            ELSE [exc |-> "none", metadata |-> DictPop(m4, "updated_at")]

\* metadata_func reading record["name"] instead of record.get("name", "")
metadata_func_subscript(record, metadata) ==
    IF "name" \notin DOMAIN record THEN [exc |-> "KeyError", metadata |-> metadata]
    ELSE LET m1 == DictSet(metadata, "name", record["name"])
             m2 == DictSet(m1, "summary", DictGet(record, "summary", EmptyStr))
             m3 == DictSet(m2, "url", DictGet(record, "url", EmptyStr))
             m4 == DictSet(m3, "category", DictGet(record, "category", EmptyStr))
             parsed == fromisoformat(DictGet(record, "updated_at", EmptyStr))
         IN  IF parsed.ok
                THEN [exc |-> "none",
                      metadata |-> DictSet(m4, "updated_at", isoformat(parsed))]
                ELSE [exc |-> "none", metadata |-> DictPop(m4, "updated_at")]

metadata_func(record, metadata) ==
    LET m1 == DictSet(metadata, "name", DictGet(record, "name", EmptyStr))
        m2 == DictSet(m1, "summary", DictGet(record, "summary", EmptyStr))
        m3 == DictSet(m2, "url", DictGet(record, "url", EmptyStr))
        m4 == DictSet(m3, "category", DictGet(record, "category", EmptyStr))
        updated_raw == DictGet(record, "updated_at", EmptyStr)
        parsed == fromisoformat(updated_raw)
    IN  IF parsed.ok
            THEN [exc |-> "none", metadata |-> DictSet(m4, "updated_at", isoformat(parsed))]
            \* except Exception: every exception of the try block is caught
            ELSE [exc |-> "none", metadata |-> DictPop(m4, "updated_at")]

clean_metadata(record, metadata) ==
    IF "updated_at" \in DOMAIN record
        THEN LET parsed == fromisoformat(record["updated_at"])
             IN  IF parsed.ok
                    THEN [exc |-> "none",
                          metadata |-> DictSet(metadata, "updated_at", isoformat(parsed))]
                    ELSE [exc |-> "none",
                          metadata |-> DictSet(metadata, "updated_at", None)]
        ELSE [exc |-> "none", metadata |-> metadata]

-----------------------------------------------------------------------------
(* Inputs *)

NameA == Str(<<"W", "F", "H">>)
NameB == Str(<<"A", "p", "r", "i", "l">>)
SomeText == Str(<<"x">>)

CanonicalStamp ==
    Str(<<"2", "0", "2", "0", "-", "0", "3", "-", "0", "1", "T",
          "0", "0", ":", "0", "0", ":", "0", "0">>)

\* values of updated_at that parse
ValidStamps ==
    { CanonicalStamp,
      Str(<<"2", "0", "2", "2", "-", "0", "4", "-", "2", "9">>),
      Str(<<"2", "0", "2", "3", "0", "5", "0", "1">>),
      Str(<<"2", "0", "2", "3", "-", "0", "5", "-", "0", "1", " ",
            "1", "0", ":", "3", "0">>),
      Str(<<"2", "0", "2", "4", "-", "0", "2", "-", "2", "9", "T",
            "2", "3", ":", "5", "9", ":", "5", "9", "Z">>),
      Str(<<"2", "0", "2", "0", "-", "0", "3", "-", "0", "1", "T",
            "0", "0", ":", "0", "0", ":", "0", "0", "-", "0", "0", ":", "0", "0">>),
      Str(<<"2", "0", "2", "0", "-", "0", "3", "-", "0", "1", "T",
            "0", "8", "1", "5", "+", "0", "5", "3", "0">>) }

\* values of updated_at that do not parse
InvalidStamps ==
    { EmptyStr,
      None,
      Str(<<"n", "o", "t", "-", "a", "-", "d", "a", "t", "e">>),
      Str(<<"2", "0", "2", "3", "-", "1", "3", "-", "0", "1">>),
      Str(<<"2", "0", "2", "3", "-", "0", "2", "-", "2", "9">>),
      Str(<<"2", "0", "2", "0", "-", "0", "3", "-", "0", "1", "T",
            "2", "5", ":", "0", "0", ":", "0", "0">>),
      Str(<<"0", "1", "/", "0", "3", "/", "2", "0", "2", "0">>),
      IntVal(20200301) }

Stamps == ValidStamps \cup InvalidStamps

\* a field the record does not have
Absent == [t |-> "absent", v |-> <<>>]

\* the dict holding the fields of f that are not Absent
Present(f) == [k \in {x \in DOMAIN f : f[x] # Absent} |-> f[k]]

\* raw records for the callbacks: every field present or missing on its own
CallRecords ==
    { Present([name |-> n, summary |-> s, url |-> u, category |-> c, updated_at |-> up]) :
        n \in {Absent, NameA, None}, s \in {Absent, SomeText}, u \in {Absent, SomeText},
        c \in {Absent, SomeText}, up \in Stamps \cup {Absent} }

SourcePath == Str(<<"temp.json">>)

\* seq_num counted from 0
LoaderMetadata_zero_based(i) == [source |-> SourcePath, seq_num |-> IntVal(i - 1)]

\* the dict JSONLoader hands to the callback (source, seq_num)
LoaderMetadata(i) == [source |-> SourcePath, seq_num |-> IntVal(i)]

\* metadata dicts for the callbacks: JSONLoader's, and dicts that already
\* hold an updated_at
CallMetadatas ==
    { LoaderMetadata(1),
      EmptyDict,
      DictSet(LoaderMetadata(2), "updated_at", Str(<<"o", "l", "d">>)),
      DictSet(LoaderMetadata(3), "updated_at", None) }

-----------------------------------------------------------------------------
(* The callbacks called on drawn inputs *)

NoCall ==
    [fn |-> "none", record0 |-> EmptyDict, metadata0 |-> EmptyDict,
     record |-> EmptyDict, metadata |-> EmptyDict, ret |-> EmptyDict, exc |-> "none"]

\* the arguments are built; no callback has run
Drawn(r, m) ==
    [fn |-> "pending", record0 |-> r, metadata0 |-> m,
     record |-> r, metadata |-> m, ret |-> EmptyDict, exc |-> "none"]

\* the call fn(record, metadata): the callback only reads record; metadata is
\* the object it wrote into, and the object it returns
Called(fn, out) ==
    [call EXCEPT !.fn = fn, !.metadata = out.metadata,
                 !.ret = IF out.exc = "none" THEN out.metadata ELSE EmptyDict,
                 !.exc = out.exc]

CallMetadataFunc ==
    /\ call.fn = "pending"
    /\ call' = Called("metadata_func", metadata_func(call.record, call.metadata))
    /\ UNCHANGED pipelineVars

CallCleanMetadata ==
    /\ call.fn = "pending"
    /\ call' = Called("clean_metadata", clean_metadata(call.record, call.metadata))
    /\ UNCHANGED pipelineVars

PipelineInit ==
    /\ pc = "download"
    /\ data = <<>>
    /\ loader = "unbound"
    /\ docs = <<>>
    /\ origin = <<>>
    /\ printed = <<>>
    /\ indexed = <<>>
    /\ retrieved = <<>>
    /\ context = <<>>
    /\ asked = 0

CallbackInit ==
    /\ PipelineInit
    /\ \E r \in CallRecords, m \in CallMetadatas : call = Drawn(r, m)

CallbackNext == CallMetadataFunc \/ CallCleanMetadata

CallbackSpec == CallbackInit /\ [][CallbackNext]_vars

-----------------------------------------------------------------------------
(* Ingestion: JSONLoader.load_and_split with the token splitter *)

Min(a, b) == IF a < b THEN a ELSE b

\* the splitter's window and step, in blocks of chunk_overlap tokens
ChunkBlocks == chunk_size \div chunk_overlap
StepBlocks == (chunk_size - chunk_overlap) \div chunk_overlap

\* the splitter: windows of chunk_size tokens, each starting chunk_size -
\* chunk_overlap tokens after the one before; the last may be shorter
RECURSIVE split_from(_, _)
split_from(ids, start) ==
    IF start > Len(ids) THEN <<>>
    ELSE LET cur == Min(start + ChunkBlocks - 1, Len(ids))
         IN  IF cur = Len(ids) THEN <<SubSeq(ids, start, cur)>>
             ELSE <<SubSeq(ids, start, cur)>> \o split_from(ids, start + StepBlocks)

split_text(text) == split_from(text, 1)

Callback(fn, record, metadata) ==
    IF fn = "metadata_func" THEN metadata_func(record, metadata)
    ELSE clean_metadata(record, metadata)

\* JSONLoader.load: one document per element of the array (jq_schema ".[]"),
\* its text the content_key field, its metadata the callback's result on
\* {source, seq_num}, seq_num counting the elements from 1
JSONLoader_load(fn, records) ==
    [i \in 1..Len(records) |->
        LET out == Callback(fn, records[i], LoaderMetadata(i))
        IN  [exc |-> out.exc, page_content |-> records[i]["content"].v,
             metadata |-> out.metadata, record |-> i]]

\* split_documents putting each document's passages before the earlier ones
RECURSIVE split_documents_newest_first(_, _)
split_documents_newest_first(documents, i) ==
    IF i > Len(documents) THEN <<>>
    ELSE LET chunks == split_text(documents[i].page_content)
         IN  split_documents_newest_first(documents, i + 1)
             \o [k \in 1..Len(chunks) |->
                    [doc |-> [page_content |-> Str(chunks[k]),
                              metadata |-> documents[i].metadata],
                     record |-> documents[i].record]]

\* split_documents: for each document in order, one passage per chunk of its
\* text, each with a copy of the document's metadata
RECURSIVE split_documents(_, _)
split_documents(documents, i) ==
    IF i > Len(documents) THEN <<>>
    ELSE LET chunks == split_text(documents[i].page_content)
         IN  [k \in 1..Len(chunks) |->
                 [doc |-> [page_content |-> Str(chunks[k]),
                           metadata |-> documents[i].metadata],
                  record |-> documents[i].record]]
             \o split_documents(documents, i + 1)

\* loader.load_and_split(text_splitter): [exc, passages]; an exception of the
\* callback leaves load()
load_and_split(fn, records) ==
    LET documents == JSONLoader_load(fn, records)
    IN  IF \E i \in 1..Len(documents) : documents[i].exc # "none"
            THEN [exc |-> "raised", passages |-> <<>>]
            ELSE [exc |-> "none", passages |-> split_documents(documents, 1)]

-----------------------------------------------------------------------------
(* Context assembly *)

\* str(value) as format() renders it
ToText(x) == IF x.t = "none" THEN <<"N", "o", "n", "e">> ELSE x.v

document_separator == <<"\n\n">>

\* format_document(doc, LLM_DOCUMENT_PROMPT): ValueError when the metadata
\* lacks a variable of the template
format_document(doc) ==
    IF "name" \notin DOMAIN doc.metadata THEN [exc |-> "ValueError", text |-> <<>>]
    ELSE [exc |-> "none",
          text |-> <<"\n---\nSOURCE: ">> \o ToText(doc.metadata["name"]) \o <<"\n">>
                   \o doc.page_content.v \o <<"\n---\n">>]

\* a join that ends every string with the separator
RECURSIVE join_terminating(_, _)
join_terminating(separator, strings) ==
    IF strings = <<>> THEN <<>>
    ELSE strings[1] \o separator \o join_terminating(separator, Tail(strings))

\* separator.join(strings)
RECURSIVE join(_, _)
join(separator, strings) ==
    IF strings = <<>> THEN <<>>
    ELSE IF Len(strings) = 1 THEN strings[1]
    ELSE strings[1] \o separator \o join(separator, Tail(strings))

_combine_documents(documents) ==
    LET doc_strings == [i \in 1..Len(documents) |-> format_document(documents[i])]
    IN  IF \E i \in 1..Len(doc_strings) : doc_strings[i].exc # "none"
            THEN [exc |-> "ValueError", text |-> <<>>]
            ELSE [exc |-> "none",
                  text |-> join(document_separator,
                                [i \in 1..Len(doc_strings) |-> doc_strings[i].text])]

-----------------------------------------------------------------------------
(* Records of the downloaded data set *)

Content(n) == Str(SubSeq(<<"b1", "b2", "b3">>, 1, n))

DataRecords ==
    { [content |-> Content(1), name |-> NameA, summary |-> SomeText, url |-> SomeText,
       category |-> SomeText, updated_at |-> CanonicalStamp],
      [content |-> Content(3), name |-> NameB, summary |-> SomeText,
       updated_at |-> Str(<<"2", "0", "2", "2", "-", "0", "4", "-", "2", "9">>)],
      [content |-> Content(0), url |-> SomeText, updated_at |-> None],
      [content |-> Content(1), name |-> NameA, category |-> SomeText],
      [content |-> Content(2), name |-> NameB,
       updated_at |-> Str(<<"n", "o", "t", "-", "a", "-", "d", "a", "t", "e">>)] }

\* the sequences of at most n elements of S
RECURSIVE SeqsUpTo(_, _)
SeqsUpTo(S, n) ==
    IF n = 0 THEN {<<>>}
    ELSE LET shorter == SeqsUpTo(S, n - 1)
         IN  shorter \cup {Append(q, x) : q \in shorter, x \in S}

\* the retriever's answers: passages of the index, none twice (unique_union)
Retrievable(store) ==
    { [i \in 1..Len(q) |-> store[q[i]]] :
        q \in { q \in SeqsUpTo(1..Len(store), MaxRetrieved) :
                  \A i, j \in 1..Len(q) : i # j => q[i] # q[j] } }

-----------------------------------------------------------------------------
(* The notebook's cells, top to bottom *)

\* data = json.load(response); json.dump(data, "temp.json")
Download ==
    /\ pc = "download"
    /\ \E d \in SeqsUpTo(DataRecords, MaxRecords) : data' = d
    /\ pc' = "load"
    /\ UNCHANGED <<loader, docs, origin, printed, indexed, retrieved, context, asked, call>>

\* loader = JSONLoader(metadata_func=metadata_func); docs = loader.load_and_split(...)
LoadAndSplit ==
    /\ pc = "load"
    /\ loader' = "metadata_func"
    /\ LET out == load_and_split(loader', data)
       IN  IF out.exc = "none"
              THEN /\ docs' = [k \in 1..Len(out.passages) |-> out.passages[k].doc]
                   /\ origin' = [k \in 1..Len(out.passages) |-> out.passages[k].record]
                   /\ pc' = "define"
              ELSE /\ pc' = "error"
                   /\ UNCHANGED <<docs, origin>>
    /\ UNCHANGED <<data, printed, indexed, retrieved, context, asked, call>>

\* def clean_metadata(record, metadata): ...
DefineCleanMetadata ==
    /\ pc = "define"
    /\ pc' = "rebind"
    /\ UNCHANGED <<data, loader, docs, origin, printed, indexed, retrieved, context,
                   asked, call>>

\* the rebinding cell also recomputing docs with the new loader
RebindLoader_reloads ==
    /\ pc = "rebind"
    /\ loader' = "clean_metadata"
    /\ LET out == load_and_split(loader', data)
       IN  /\ docs' = [k \in 1..Len(out.passages) |-> out.passages[k].doc]
           /\ origin' = [k \in 1..Len(out.passages) |-> out.passages[k].record]
    /\ pc' = "print"
    /\ UNCHANGED <<data, printed, indexed, retrieved, context, asked, call>>

\* loader = JSONLoader(metadata_func=clean_metadata)
RebindLoader ==
    /\ pc = "rebind"
    /\ loader' = "clean_metadata"
    /\ pc' = "print"
    /\ UNCHANGED <<data, docs, origin, printed, indexed, retrieved, context, asked, call>>

\* for d in docs[:3]: print(d.metadata)
PrintDocs ==
    /\ pc = "print"
    /\ printed' = [k \in 1..Min(3, Len(docs)) |-> docs[k].metadata]
    /\ pc' = "index"
    /\ UNCHANGED <<data, loader, docs, origin, indexed, retrieved, context, asked, call>>

\* from_documents adding every passage twice
from_documents_twice(store, documents) == store \o documents \o documents

\* vectorstore.from_documents(docs, embeddings, ...): the store after the call
from_documents(store, documents) == store \o documents

FromDocuments ==
    /\ pc = "index"
    /\ indexed' = from_documents(indexed, docs)
    /\ pc' = "ask"
    /\ UNCHANGED <<data, loader, docs, origin, printed, retrieved, context, asked, call>>

\* ans = chain.invoke(question): context = retriever | _combine_documents
Invoke ==
    /\ pc = "ask"
    /\ \E found \in Retrievable(indexed) :
          LET out == _combine_documents(found)
          IN  /\ retrieved' = found
              /\ IF out.exc = "none"
                    THEN /\ context' = out.text
                         /\ asked' = asked + 1
                         /\ pc' = IF asked' = NumQuestions THEN "done" ELSE "ask"
                    ELSE /\ pc' = "error"
                         /\ UNCHANGED <<context, asked>>
    /\ UNCHANGED <<data, loader, docs, origin, printed, indexed, call>>

Init ==
    /\ PipelineInit
    /\ call = NoCall

Next ==
    \/ Download
    \/ LoadAndSplit
    \/ DefineCleanMetadata
    \/ RebindLoader
    \/ PrintDocs
    \/ FromDocuments
    \/ Invoke

Spec == Init /\ [][Next]_vars

-----------------------------------------------------------------------------
(* Properties of the metadata callbacks, checked under CallbackSpec *)

MetaKeys == {"name", "summary", "url", "category"}

NormalizedKeys == {"name", "summary", "url", "category", "updated_at"}

HasStamp(r, S) == "updated_at" \in DOMAIN r /\ r["updated_at"] \in S

\* YYYY-MM-DDTHH:MM:SS, alone or followed by +HH:MM / -HH:MM (not -00:00) or
\* the same with :SS
IsCanonicalText(x) ==
    /\ x.t = "str"
    /\ Len(x.v) \in {19, 25, 28}
    /\ \A i \in 1..Len(x.v) :
          IF i \in {5, 8} THEN x.v[i] = "-"
          ELSE IF i = 11 THEN x.v[i] = "T"
          ELSE IF i \in {14, 17, 23, 26} THEN x.v[i] = ":"
          ELSE IF i = 20 THEN x.v[i] \in {"+", "-"}
          ELSE IsDigit(x.v[i])
    /\ Len(x.v) > 19 /\ x.v[20] = "-" => \E i \in 21..Len(x.v) : x.v[i] \notin {"0", ":"}

\* C1: when the record's updated_at is missing, empty, None or does not parse,
\* metadata_func returns normally and neither the returned mapping nor the
\* mapping it was given holds an updated_at key afterwards.
C1_UnusableStampOmitted ==
    (call.fn = "metadata_func"
        /\ ("updated_at" \notin DOMAIN call.record0 \/ HasStamp(call.record0, InvalidStamps)))
    => /\ call.exc = "none"
       /\ "updated_at" \notin DOMAIN call.ret
       /\ "updated_at" \notin DOMAIN call.metadata
       /\ MetaKeys \subseteq DOMAIN call.ret

C1_Witness ==
    /\ call.fn = "metadata_func"
    /\ HasStamp(call.record0, {None})
    /\ "updated_at" \in DOMAIN call.metadata0
    /\ "updated_at" \notin DOMAIN call.ret

\* C2 as claimed: whichever callback ran on the mapping JSONLoader builds, the
\* result holds under updated_at a canonical ISO-8601 string or has no such key.
C2_NeverNullOrMalformed ==
    (call.fn \in {"metadata_func", "clean_metadata"}
        /\ "updated_at" \notin DOMAIN call.metadata0)
    => \/ "updated_at" \notin DOMAIN call.ret
       \/ IsCanonicalText(call.ret["updated_at"])

\* C4 as claimed: metadata_func leaves the record and the mapping it was given
\* unchanged, and what it returns is decided by the record alone.
C4_NoSideEffects ==
    call.fn = "metadata_func"
    => /\ call.record = call.record0
       /\ call.metadata = call.metadata0
       /\ \A m \in CallMetadatas : metadata_func(call.record0, m).metadata = call.ret

Restrict(d, keys) == [k \in (DOMAIN d) \cap keys |-> d[k]]

\* C4 amended: metadata_func leaves the record unchanged, writes into the
\* mapping it was given and returns that mapping; the keys name, summary, url,
\* category and updated_at of the result are decided by the record alone, and
\* every other key of the given mapping is kept with its value.
C4_WritesOnlyNormalizedKeys ==
    call.fn = "metadata_func"
    => /\ call.exc = "none"
       /\ call.record = call.record0
       /\ call.ret = call.metadata
       /\ Restrict(call.ret, (DOMAIN call.ret) \ NormalizedKeys)
            = Restrict(call.metadata0, (DOMAIN call.metadata0) \ NormalizedKeys)
       /\ \A m \in CallMetadatas :
             Restrict(metadata_func(call.record0, m).metadata, NormalizedKeys)
               = Restrict(call.ret, NormalizedKeys)

C4_Witness ==
    /\ call.fn = "metadata_func"
    /\ call.metadata # call.metadata0
    /\ "seq_num" \in DOMAIN call.ret
    /\ "updated_at" \in DOMAIN call.metadata0
    /\ call.ret["name"] = NameA

\* the datetime a text denotes, as fromisoformat reads it
SameTimestamp(x, y) == fromisoformat(x).ok /\ fromisoformat(x) = fromisoformat(y)

\* C5: when the record's updated_at parses, metadata_func stores under
\* updated_at the canonical YYYY-MM-DDTHH:MM:SS[offset] text of the same
\* timestamp; a value already in that form is stored unchanged, and
\* normalizing the stored value again gives it back.
C5_CanonicalStamp ==
    (call.fn = "metadata_func" /\ HasStamp(call.record0, ValidStamps))
    => /\ call.exc = "none"
       /\ "updated_at" \in DOMAIN call.ret
       /\ LET raw == call.record0["updated_at"]
              out == call.ret["updated_at"]
              again == metadata_func(DictSet(call.record0, "updated_at", out),
                                     call.metadata0).metadata
          IN  /\ IsCanonicalText(out)
              /\ SameTimestamp(raw, out)
              /\ IsCanonicalText(raw) => out = raw
              /\ again = call.ret

C5_Witness ==
    /\ call.fn = "metadata_func"
    /\ HasStamp(call.record0, ValidStamps \ {CanonicalStamp})
    /\ call.ret["updated_at"] # call.record0["updated_at"]
    /\ Len(call.ret["updated_at"].v) = 25

\* C6: the mapping metadata_func returns holds name, summary, url and
\* category, each with the record's value when the record has the field and
\* the empty string when it does not, and the call raises nothing.
C6_FieldsDefaultToEmpty ==
    call.fn = "metadata_func"
    => /\ call.exc = "none"
       /\ \A k \in MetaKeys :
             /\ k \in DOMAIN call.ret
             /\ call.ret[k] = IF k \in DOMAIN call.record0 THEN call.record0[k]
                              ELSE EmptyStr

C6_Witness ==
    /\ call.fn = "metadata_func"
    /\ DOMAIN call.record0 = {"url"}
    /\ call.ret["name"] = EmptyStr
    /\ call.ret["url"] = SomeText

-----------------------------------------------------------------------------
(* Properties of the notebook's run, checked under Spec *)

Loaded == pc \in {"define", "rebind", "print", "index", "ask", "done"}

PassagesOf(i) == {k \in 1..Len(docs) : origin[k] = i}

\* C3 as claimed: two different passages of one record never carry the same
\* seq_num, and the first passage of every record carries seq_num 1.
C3_SeqNumPerChunk ==
    Loaded =>
       /\ \A k1, k2 \in 1..Len(docs) :
             (k1 # k2 /\ origin[k1] = origin[k2])
                => docs[k1].metadata["seq_num"] # docs[k2].metadata["seq_num"]
       /\ \A i \in 1..Len(data) :
             PassagesOf(i) # {}
                => \E k \in PassagesOf(i) : docs[k].metadata["seq_num"] = IntVal(1)

\* C3 amended: every passage carries as seq_num the 1-based position of its
\* source record in the input array: the passages of one record all share
\* that number, and passages of different records carry different numbers.
C3_SeqNumIsRecordPosition ==
    Loaded =>
       /\ \A k \in 1..Len(docs) : docs[k].metadata["seq_num"] = IntVal(origin[k])
       /\ \A k1, k2 \in 1..Len(docs) :
             (docs[k1].metadata["seq_num"] = docs[k2].metadata["seq_num"])
                <=> (origin[k1] = origin[k2])

C3_Witness ==
    /\ Loaded
    /\ \E k1, k2, k3 \in 1..Len(docs) :
          /\ k1 # k2
          /\ origin[k1] = origin[k2]
          /\ origin[k3] # origin[k1]
          /\ docs[k1].metadata["seq_num"] = IntVal(2)

\* the passages cut from record i, in the order they stand in docs
RECURSIVE TextsOf(_, _)
TextsOf(i, k) ==
    IF k > Len(docs) THEN <<>>
    ELSE (IF origin[k] = i THEN <<docs[k].page_content.v>> ELSE <<>>) \o TextsOf(i, k + 1)

\* C7: docs is the concatenation, in the order of the records, of each
\* record's chunks: passages of an earlier record stand before those of a
\* later one, the passages of a record are its chunks in order, and each
\* passage's name is the name of the record it was cut from.
C7_RecordOrderAndName ==
    Loaded =>
       /\ Len(origin) = Len(docs)
       /\ \A k1, k2 \in 1..Len(docs) : k1 < k2 => origin[k1] <= origin[k2]
       /\ \A i \in 1..Len(data) : TextsOf(i, 1) = split_text(data[i]["content"].v)
       /\ \A k \in 1..Len(docs) :
             /\ origin[k] \in 1..Len(data)
             /\ docs[k].metadata["name"] = DictGet(data[origin[k]], "name", EmptyStr)

C7_Witness ==
    /\ Loaded
    /\ Len(data) = 2
    /\ PassagesOf(1) # {} /\ PassagesOf(2) # {}
    /\ Cardinality(PassagesOf(1)) >= 2
    /\ data[1]["name"] # data[2]["name"]

\* the pieces of text between the occurrences of the atom sep
RECURSIVE SplitAt(_, _, _)
SplitAt(text, sep, piece) ==
    IF text = <<>> THEN <<piece>>
    ELSE IF Head(text) = sep THEN <<piece>> \o SplitAt(Tail(text), sep, <<>>)
    ELSE SplitAt(Tail(text), sep, Append(piece, Head(text)))

\* C8: the context _combine_documents returned is, piece by piece between the
\* separators, the retrieved passages rendered through the template, as many
\* and in the same order, with no separator at either end; for no passages it
\* is the empty string.
C8_ContextIsJoinedInOrder ==
    (asked >= 1 /\ pc \in {"ask", "done"}) =>
       IF retrieved = <<>> THEN context = <<>>
       ELSE LET pieces == SplitAt(context, document_separator[1], <<>>)
            IN  /\ Len(pieces) = Len(retrieved)
                /\ \A i \in 1..Len(retrieved) :
                      /\ pieces[i] # <<>>
                      /\ pieces[i] = format_document(retrieved[i]).text
                /\ Head(context) # document_separator[1]
                /\ context[Len(context)] # document_separator[1]

C8_Witness ==
    /\ asked >= 1
    /\ Len(retrieved) = 2
    /\ retrieved[1].metadata["name"] # retrieved[2].metadata["name"]
    /\ \E i \in 1..Len(context) : context[i] = document_separator[1]

C8_WitnessEmpty == asked >= 1 /\ retrieved = <<>> /\ context = <<>> /\ indexed # <<>>

\* C9: from the cell that creates docs to the end of the run, docs never
\* changes; nothing is handed to from_documents before its cell, that cell
\* hands over exactly the passages of docs, each once and in order, and
\* nothing is handed over again afterwards.
C9_HandedOnceUnchanged ==
    [][ /\ pc \in {"define", "rebind", "print", "index", "ask"} => docs' = docs
        /\ pc \in {"download", "load", "define", "rebind", "print"} => indexed' = <<>>
        /\ pc = "index" => indexed' = docs
        /\ pc = "ask" => indexed' = indexed /\ indexed = docs ]_vars

C9_Witness == pc = "done" /\ Len(docs) >= 3 /\ indexed = docs

\* C10: rebinding loader to clean_metadata leaves docs as the first loader
\* made it, so the passages handed to from_documents are those metadata_func
\* produced, and none of them is a passage the clean_metadata loader would
\* produce.
C10_RebindLeavesDocs ==
    LET first == load_and_split("metadata_func", data).passages
        second == load_and_split("clean_metadata", data).passages
    IN  /\ pc \in {"print", "index", "ask", "done"} =>
              /\ loader = "clean_metadata"
              /\ docs = [k \in 1..Len(first) |-> first[k].doc]
        /\ pc \in {"ask", "done"} =>
              /\ indexed = [k \in 1..Len(first) |-> first[k].doc]
              /\ \A k \in 1..Len(indexed) :
                    /\ \A j \in 1..Len(second) : indexed[k] # second[j].doc
                    /\ MetaKeys \subseteq DOMAIN indexed[k].metadata
                    /\ "updated_at" \in DOMAIN indexed[k].metadata
                          => indexed[k].metadata["updated_at"] # None

C10_Witness ==
    /\ pc = "done"
    /\ loader = "clean_metadata"
    /\ indexed # <<>>
    /\ \E i \in 1..Len(data) : HasStamp(data[i], {None}) 
    /\ \E i \in 1..Len(data) :
          HasStamp(data[i], InvalidStamps) /\ PassagesOf(i) # {}

====
